---------------------------- MODULE Spec2Model ----------------------------
(***************************************************************************)
(* Memory-mapped tensors of tensordict/_memory_map.py.                     *)
(*                                                                         *)
(* The state is the part of the operating system the module acts on (the   *)
(* files with their bytes, the descriptor table of each process, the       *)
(* pickled (size, descriptor) pairs in flight between processes) and the   *)
(* Python objects the module builds on it: _FileHandler objects and the    *)
(* tensors returned by empty_like / zeros_like / ones_like / from_tensor.  *)
(* A mapping (mmap.mmap object, or the storage torch.from_file maps) is    *)
(* the record [ino, len] held by the handler or the tensor that owns it.   *)
(***************************************************************************)
EXTENDS Integers, Sequences, FiniteSets, TLC

VARIABLES files, fdtab, handlers, tensors, chan, last

vars == <<files, fdtab, handlers, tensors, chan, last>>

-----------------------------------------------------------------------------
(* Bounds of the model.                                                    *)

MaxDim == 2
MaxSize == 2
MaxInodes == 3
MaxFds == 2
MaxHandlers == 2
MaxTensors == 2
MaxInFlight == 1

-----------------------------------------------------------------------------
(* Values of the program.                                                  *)

\* fd=-1 default of _FileHandler.__init__, tested again by _reduce_handler
NoFd == -1

None == "None"

Procs == {"main", "worker"}
MainProc == "main"

Inos == 1..MaxInodes
\* descriptors 0, 1 and 2 are the standard streams
FdNums == 3..(2 + MaxFds)
HIds == 1..MaxHandlers
TIds == 1..MaxTensors

\* named files a caller may pass as filename=
Paths == {"/tmp/x.bin", "/tmp/y.bin"}
NoName == "(unlinked)"

DTypes == {"float32", "int16", "bool", "complex64"}
Devices == {None, "cpu", "cuda:0"}
Layouts == {None, "strided"}

\* shapes: torch.Size of rank 1 and 2
Shapes == {<<d>> : d \in 0..MaxDim} \cup {<<MaxDim, 1>>}

\* element values written by the callers of the model
Vals == {0, 1, 5}
\* byte values written through a handler's buffer
ByteVals == {1}

NoMap == [ino |-> 0, len |-> 0]

-----------------------------------------------------------------------------
(* torch.dtype, torch.Size and torch.device as the module uses them.       *)

is_floating_point(dt) == dt = "float32"

is_complex(dt) == dt = "complex64"

\* torch.finfo(dtype).bits
finfo_bits(dt) == CASE dt = "float32" -> 32

\* torch.iinfo(dtype).bits
iinfo_bits(dt) == CASE dt = "int16" -> 16

\* dtype.itemsize, as torch.from_file and torch.frombuffer use it
itemsize(dt) ==
    CASE dt = "float32" -> 4
      [] dt = "int16" -> 2
      [] dt = "bool" -> 1
      [] dt = "complex64" -> 8

RECURSIVE numel(_)
\* shape.numel(): the product of the dimensions
numel(shape) ==
    IF shape = << >> THEN 1 ELSE Head(shape) * numel(Tail(shape))

\* torch.device(device).type
device_type(device) == IF device = "cuda:0" THEN "cuda" ELSE "cpu"

RECURSIVE Pow2(_)
Pow2(n) == IF n = 0 THEN 1 ELSE 2 * Pow2(n - 1)

RECURSIVE Log2(_)
\* floor(log2 v), v >= 1
Log2(v) == IF v < 2 THEN 0 ELSE 1 + Log2(v \div 2)

\* little-endian bytes of an unsigned integer
LittleEndian(x, n) == [i \in 1..n |-> (x \div Pow2(8 * (i - 1))) % 256]

\* IEEE-754 binary32 bit pattern of a small non-negative integer value
Float32Bits(v) ==
    IF v = 0 THEN 0
    ELSE LET e == Log2(v)
         IN  (e + 127) * Pow2(23) + (v - Pow2(e)) * Pow2(23 - e)

\* the bytes of one element holding value v, as the dtype stores it
Encode(dt, v) ==
    CASE dt = "float32" -> LittleEndian(Float32Bits(v), 4)
      [] dt = "int16" -> LittleEndian(v % 65536, 2)
      [] dt = "bool" -> <<IF v = 0 THEN 0 ELSE 1>>
      [] dt = "complex64" -> LittleEndian(Float32Bits(v), 4) \o <<0, 0, 0, 0>>

\* the value an element's bytes hold (-1: none of the values of the model)
Decode(dt, bytes) ==
    IF \E v \in Vals : Encode(dt, v) = bytes
    THEN CHOOSE v \in Vals : Encode(dt, v) = bytes
    ELSE -1

-----------------------------------------------------------------------------
(* The operating system: files, descriptors, mappings.                     *)
(* A kernel state K is the record [files, fdtab].                          *)

DeadFile == [live |-> FALSE, name |-> NoName, data |-> << >>]

Min(S) == CHOOSE x \in S : \A y \in S : x <= y

FreeInos(K) == {i \in Inos : ~K.files[i].live}

FreeFds(K, p) == {f \in FdNums : K.fdtab[p][f] = 0}

\* the inode a path names, 0 when no file has that name
Lookup(K, path) ==
    IF \E i \in Inos : K.files[i].live /\ K.files[i].name = path
    THEN CHOOSE i \in Inos : K.files[i].live /\ K.files[i].name = path
    ELSE 0

\* open(path, O_CREAT | O_RDWR) / mkstemp: the lowest free descriptor of p
OpenNew(K, p, path) ==
    LET i == Min(FreeInos(K))
        f == Min(FreeFds(K, p))
    IN  [K |-> [files |-> [K.files EXCEPT ![i] =
                              [live |-> TRUE, name |-> path, data |-> << >>]],
                fdtab |-> [K.fdtab EXCEPT ![p][f] = i]],
         fd |-> f]

OpenExisting(K, p, i) ==
    LET f == Min(FreeFds(K, p))
    IN  [K |-> [K EXCEPT !.fdtab[p][f] = i], fd |-> f]

\* os.unlink(name)
Unlink(K, i) == [K EXCEPT !.files[i].name = NoName]

\* os.close(fd)
Close(K, p, f) == [K EXCEPT !.fdtab[p][f] = 0]

\* os.ftruncate(fd, size): cut, or extend with zero bytes
Ftruncate(K, i, size) ==
    LET d == K.files[i].data
    IN  [K EXCEPT !.files[i].data =
            [j \in 1..size |-> IF j <= Len(d) THEN d[j] ELSE 0]]

\* writing bytes at a 0-based offset through a shared mapping of inode i
Store(K, i, off, bytes) ==
    [K EXCEPT !.files[i].data =
        [j \in 1..Len(@) |->
            IF j > off /\ j <= off + Len(bytes) THEN bytes[j - off] ELSE @[j]]]

\* the bytes read through a mapping
Load(fs, m) == SubSeq(fs[m.ino].data, 1, m.len)

\* the inodes something still holds: a descriptor, a mapping, a pair in flight
Held(K, hs, ts, ch) ==
    {K.fdtab[p][f] : p \in Procs, f \in FdNums}
        \cup {hs[h].buffer.ino : h \in {x \in HIds : hs[x].state = "live"}}
        \cup {ts[t].storage.ino : t \in {x \in TIds : ts[x].state = "live"}}
        \cup {m.ino : m \in ch}

\* the kernel frees an unlinked file once nothing holds it
Reclaim(K, hs, ts, ch) ==
    [i \in Inos |->
        IF K.files[i].live /\ K.files[i].name = NoName
              /\ i \notin Held(K, hs, ts, ch)
        THEN DeadFile ELSE K.files[i]]

\* mmap.mmap(fd, length): length 0 maps the whole file, an empty file cannot be
\* mapped, and no more than the file's size can be mapped
MmapLen(K, i, length) ==
    IF length = 0 THEN Len(K.files[i].data) ELSE length

MmapFails(K, i, length) ==
    \/ length = 0 /\ Len(K.files[i].data) = 0
    \/ length > Len(K.files[i].data)

-----------------------------------------------------------------------------
(* class _FileHandler                                                      *)

NoHandler ==
    [state |-> "none", proc |-> MainProc, size |-> 0, fd |-> NoFd,
     buffer |-> NoMap, finalize |-> FALSE, origin |-> 0]

\* _FileHandler.__init__(self, size, fd): the result is
\*   [ok, K, h, created] where created counts what the call allocated: the
\*   temporary file, its descriptor, the mapping.
\* A constructor that raises leaves no object behind; the finalizer registered by
\* util.Finalize closes self.fd when the half-built object is collected.
FileHandler_init(K, p, size, fd) ==
    LET opened == OpenNew(K, p, "pym-temp")
        K1 == IF fd = NoFd
              THEN Ftruncate(Unlink(opened.K, Min(FreeInos(K))),
                             Min(FreeInos(K)), size)
              ELSE K
        selffd == IF fd = NoFd THEN opened.fd ELSE fd
        fin == fd = NoFd
        i == K1.fdtab[p][selffd]
        made == IF fd = NoFd THEN 2 ELSE 0
    IN  IF MmapFails(K1, i, size)
        THEN [ok |-> FALSE,
              K |-> IF fin THEN Close(K1, p, selffd) ELSE K1,
              h |-> NoHandler, created |-> made]
        ELSE [ok |-> TRUE, K |-> K1,
              h |-> [state |-> "live", proc |-> p, size |-> size, fd |-> selffd,
                     buffer |-> [ino |-> i, len |-> MmapLen(K1, i, size)],
                     finalize |-> fin, origin |-> 0],
              created |-> made + 1]

\* the last reference to a handler goes away: the util.Finalize callback, where
\* one was registered, closes the descriptor; the mmap object is deallocated
\* with the handler unless a memoryview of it is still exported
DropHandler(K, h) ==
    IF h.finalize THEN Close(K, h.proc, h.fd) ELSE K

\* a _reduce_handler that takes every handler built from a descriptor for one
\* without a local descriptor
reduce_handler_rebuilt_unpicklable(K, h) ==
    IF h.fd = NoFd \/ ~h.finalize
    THEN [ok |-> FALSE, size |-> 0, ino |-> 0]
    ELSE [ok |-> TRUE, size |-> h.size, ino |-> K.fdtab[h.proc][h.fd]]

\* _reduce_handler(handler): [ok, size, ino] where ino is the file that the
\* duplicate made by reduction.DupFd(handler.fd) refers to
reduce_handler(K, h) ==
    IF h.fd = NoFd
    THEN [ok |-> FALSE, size |-> 0, ino |-> 0]
    ELSE [ok |-> TRUE, size |-> h.size, ino |-> K.fdtab[h.proc][h.fd]]

\* a _rebuild_handler that drops the descriptor it detached and builds a region
\* of its own
rebuild_handler_fresh(K, p, size, ino) ==
    FileHandler_init(K, p, size, NoFd)

\* _rebuild_handler(size, dupfd) in process p: dupfd.detach() installs the
\* duplicate as a descriptor of p, then _FileHandler(size, detached)
rebuild_handler(K, p, size, ino) ==
    LET det == OpenExisting(K, p, ino)
    IN  FileHandler_init(det.K, p, size, det.fd)

-----------------------------------------------------------------------------
(* Tensors.                                                                *)

NoTensor ==
    [state |-> "none", dtype |-> "float32", shape |-> <<0>>, storage |-> NoMap,
     filename |-> None, dupOf |-> 0]

RECURSIVE Repeat(_, _)
Repeat(bytes, n) == IF n = 0 THEN << >> ELSE bytes \o Repeat(bytes, n - 1)

\* the bytes of the elements of tensor t
Bytes(fs, t) ==
    SubSeq(fs[t.storage.ino].data, 1, numel(t.shape) * itemsize(t.dtype))

\* element i (0-based, row-major) of tensor t
Elem(fs, t, i) ==
    Decode(t.dtype, SubSeq(fs[t.storage.ino].data,
                           i * itemsize(t.dtype) + 1, (i + 1) * itemsize(t.dtype)))

\* t.fill_(v), t.zero_() is Fill(K, t, 0)
Fill(K, t, v) ==
    Store(K, t.storage.ino, 0, Repeat(Encode(t.dtype, v), numel(t.shape)))

\* t.copy_(src) for a source of the same shape and dtype with bytes srcbytes
CopyIn(K, t, srcbytes) == Store(K, t.storage.ino, 0, srcbytes)

\* torch.from_file(filename, shared=True, dtype=, size=, pin_memory=):
\* refuses pinning before it touches the file; opens the file, creating it when
\* it is missing; extends it to size elements; maps size elements, or the whole
\* file when size is 0; mapping zero bytes fails and leaves the file behind
from_file(K, p, path, dt, size, pin) ==
    LET old == Lookup(K, path)
        i == IF old = 0 THEN Min(FreeInos(K)) ELSE old
        K1 == IF old = 0
              THEN [K EXCEPT !.files[i] =
                        [live |-> TRUE, name |-> path, data |-> << >>]]
              ELSE K
        want == size * itemsize(dt)
        K2 == IF want > Len(K1.files[i].data) THEN Ftruncate(K1, i, want) ELSE K1
        len == IF want > 0 THEN want ELSE Len(K2.files[i].data)
        \* the descriptor it opens (and closes once mapped), the file if new
        made == IF old = 0 THEN 2 ELSE 1
    IN  IF pin
        THEN [ok |-> FALSE, err |-> "pin_memory", K |-> K, storage |-> NoMap,
              created |-> 0]
        ELSE IF len = 0
        THEN [ok |-> FALSE, err |-> "mmap", K |-> K2, storage |-> NoMap,
              created |-> made]
        ELSE [ok |-> TRUE, err |-> None, K |-> K2,
              storage |-> [ino |-> i, len |-> len], created |-> made]

Raise(err, K, created) ==
    [ok |-> FALSE, err |-> err, K |-> K, t |-> NoTensor, created |-> created]

\* an empty_like that looks at the device only once the region is there
empty_like_late_device(K, input, dtype, layout, device, pin_memory, filename) ==
    LET shape == input.shape
        dt == IF dtype = None THEN input.dtype ELSE dtype
        size == numel(shape) * itemsize(dt)
        hr == FileHandler_init(K, MainProc, size, NoFd)
        Kh == DropHandler(hr.K, hr.h)
        fr == from_file(K, MainProc, filename, dt, numel(shape), pin_memory)
        bad == device # None /\ device_type(device) # "cpu"
    IN  IF filename = None
        THEN IF is_complex(dt) THEN Raise("complex", K, 0)
             ELSE IF ~hr.ok THEN Raise("mmap", hr.K, hr.created)
             ELSE IF bad THEN Raise("device", Kh, hr.created)
             ELSE IF layout # None THEN Raise("layout", Kh, hr.created)
             ELSE IF pin_memory THEN Raise("pin_memory", Kh, hr.created)
             ELSE [ok |-> TRUE, err |-> None, K |-> Kh,
                   t |-> [state |-> "live", dtype |-> dt, shape |-> shape,
                          storage |-> hr.h.buffer, filename |-> None,
                          dupOf |-> 0],
                   created |-> hr.created]
        ELSE IF bad THEN Raise("device", K, 0)
             ELSE IF ~fr.ok THEN Raise(fr.err, fr.K, fr.created)
             ELSE [ok |-> TRUE, err |-> None, K |-> fr.K,
                   t |-> [state |-> "live", dtype |-> dt, shape |-> shape,
                          storage |-> fr.storage, filename |-> filename,
                          dupOf |-> 0],
                   created |-> fr.created + 1]

\* an empty_like that takes the number of elements for the number of bytes
empty_like_count_as_bytes(K, input, dtype, layout, device, pin_memory, filename) ==
    LET shape == input.shape
        dt == IF dtype = None THEN input.dtype ELSE dtype
        size == numel(shape)
        hr == FileHandler_init(K, MainProc, size, NoFd)
        Kh == DropHandler(hr.K, hr.h)
        fr == from_file(K, MainProc, filename, dt, numel(shape), pin_memory)
    IN  IF device # None /\ device_type(device) # "cpu"
        THEN Raise("device", K, 0)
        ELSE IF filename = None
        THEN IF ~is_floating_point(dt) /\ is_complex(dt)
             THEN Raise("complex", K, 0)
             ELSE IF ~hr.ok THEN Raise("mmap", hr.K, hr.created)
             ELSE IF layout # None THEN Raise("layout", Kh, hr.created)
             ELSE IF pin_memory THEN Raise("pin_memory", Kh, hr.created)
             ELSE [ok |-> TRUE, err |-> None, K |-> Kh,
                   t |-> [state |-> "live", dtype |-> dt, shape |-> shape,
                          storage |-> hr.h.buffer, filename |-> None,
                          dupOf |-> 0],
                   created |-> hr.created]
        ELSE IF ~fr.ok THEN Raise(fr.err, fr.K, fr.created)
             ELSE [ok |-> TRUE, err |-> None, K |-> fr.K,
                   t |-> [state |-> "live", dtype |-> dt, shape |-> shape,
                          storage |-> fr.storage, filename |-> filename,
                          dupOf |-> 0],
                   created |-> fr.created + 1]

\* empty_like(input, dtype=, layout=, device=, pin_memory=, filename=) in the
\* main process. The result is [ok, err, K, t, created]: err names the raise
\* statement reached, t is the tensor returned, created counts the files,
\* descriptors and mappings the call allocated (whether or not they survive it).
empty_like(K, input, dtype, layout, device, pin_memory, filename) ==
    LET shape == input.shape
        dt == IF dtype = None THEN input.dtype ELSE dtype
        size == IF is_floating_point(dt) THEN (finfo_bits(dt) \div 8) * numel(shape)
                ELSE IF dt = "bool" THEN numel(shape)
                ELSE (iinfo_bits(dt) \div 8) * numel(shape)
        hr == FileHandler_init(K, MainProc, size, NoFd)
        \* the local handler dies when the call ends, by return or by raise
        Kh == DropHandler(hr.K, hr.h)
        fr == from_file(K, MainProc, filename, dt, numel(shape), pin_memory)
    IN  IF device # None /\ device_type(device) # "cpu"
        THEN Raise("device", K, 0)
        ELSE IF filename = None
        THEN IF ~is_floating_point(dt) /\ is_complex(dt)
             THEN Raise("complex", K, 0)
             ELSE IF ~hr.ok THEN Raise("mmap", hr.K, hr.created)
             ELSE IF layout # None THEN Raise("layout", Kh, hr.created)
             ELSE IF pin_memory THEN Raise("pin_memory", Kh, hr.created)
             ELSE [ok |-> TRUE, err |-> None, K |-> Kh,
                   t |-> [state |-> "live", dtype |-> dt, shape |-> shape,
                          storage |-> hr.h.buffer, filename |-> None,
                          dupOf |-> 0],
                   created |-> hr.created]
        ELSE IF ~fr.ok THEN Raise(fr.err, fr.K, fr.created)
             ELSE [ok |-> TRUE, err |-> None, K |-> fr.K,
                   t |-> [state |-> "live", dtype |-> dt, shape |-> shape,
                          storage |-> fr.storage, filename |-> filename,
                          dupOf |-> 0],
                   created |-> fr.created + 1]

\* zeros_like(...): empty_like(...).zero_()
zeros_like(K, input, dtype, layout, device, pin_memory, filename) ==
    LET r == empty_like(K, input, dtype, layout, device, pin_memory, filename)
    IN  IF r.ok THEN [r EXCEPT !.K = Fill(r.K, r.t, 0)] ELSE r

\* ones_like(...): empty_like(...).fill_(1.0)
ones_like(K, input, dtype, layout, device, pin_memory, filename) ==
    LET r == empty_like(K, input, dtype, layout, device, pin_memory, filename)
    IN  IF r.ok THEN [r EXCEPT !.K = Fill(r.K, r.t, 1)] ELSE r

\* a from_tensor that refuses only a file other than the one behind the source
from_tensor_other_file(K, src, filename, copy_existing) ==
    LET r == empty_like(K, src, None, None, None, FALSE, filename)
    IN  IF filename # None /\ ~copy_existing /\ src.filename # None
              /\ src.filename # filename
        THEN Raise("conflict", K, 0)
        ELSE IF r.ok
        THEN [r EXCEPT !.K = CopyIn(r.K, r.t, src.bytes), !.t.dupOf = src.id]
        ELSE r

\* from_tensor(tensor, filename=, copy_existing=): src is the source tensor as
\* [dtype, shape, filename, bytes, id]
from_tensor(K, src, filename, copy_existing) ==
    LET r == empty_like(K, src, None, None, None, FALSE, filename)
    IN  IF filename # None /\ ~copy_existing /\ src.filename # None
        THEN Raise("conflict", K, 0)
        ELSE IF r.ok
        THEN [r EXCEPT !.K = CopyIn(r.K, r.t, src.bytes), !.t.dupOf = src.id]
        ELSE r

-----------------------------------------------------------------------------
(* The state machine.                                                      *)
(* A call of the module is one action: it runs the whole function and      *)
(* leaves in `last` what it was given and what it gave back. The caller    *)
(* then takes the result, or catches the exception, and goes on (Return).  *)

Kernel == [files |-> files, fdtab |-> fdtab]

NoCall ==
    [op |-> "none", ok |-> TRUE, err |-> None, created |-> 0, out |-> 0,
     dtype |-> None, shape |-> <<0>>, device |-> None, layout |-> None,
     pin_memory |-> FALSE, filename |-> None, copy_existing |-> FALSE,
     src |-> 0, srcfile |-> None,
     h |-> 0, proc |-> MainProc, size |-> 0, ino |-> 0]

Init ==
    /\ files = [i \in Inos |-> DeadFile]
    /\ fdtab = [p \in Procs |-> [f \in FdNums |-> 0]]
    /\ handlers = [h \in HIds |-> NoHandler]
    /\ tensors = [t \in TIds |-> NoTensor]
    /\ chan = {}
    /\ last = NoCall

Idle == last = NoCall

LiveTensors == {t \in TIds : tensors[t].state = "live"}
LiveHandlers == {h \in HIds : handlers[h].state = "live"}
NewTensors == {t \in TIds : tensors[t].state = "none"}
NewHandlers == {h \in HIds : handlers[h].state = "none"}

\* the kernel has a file and a descriptor to give: without them a call ends in
\* an OSError of the operating system, which the model leaves out
CanOpen(p) == FreeInos(Kernel) # {} /\ FreeFds(Kernel, p) # {}

\* the tensor given as input: its shape and dtype are all that is read
Inputs == {[dtype |-> "float32", shape |-> sh] : sh \in Shapes}

\* the state after a creation call with result r
Created(op, r, dt, shape, device, layout, pin_memory, filename) ==
    LET t == Min(NewTensors)
        ts == IF r.ok THEN [tensors EXCEPT ![t] = r.t] ELSE tensors
    IN  /\ tensors' = ts
        /\ files' = Reclaim(r.K, handlers, ts, chan)
        /\ fdtab' = r.K.fdtab
        /\ last' = [NoCall EXCEPT !.op = op, !.ok = r.ok, !.err = r.err,
                        !.created = r.created, !.out = IF r.ok THEN t ELSE 0,
                        !.dtype = dt, !.shape = shape, !.device = device,
                        !.layout = layout, !.pin_memory = pin_memory,
                        !.filename = filename]
        /\ UNCHANGED <<handlers, chan>>

\* the keyword arguments layout=, device=, pin_memory= of a creation call
Configs ==
    [device : Devices, layout : Layouts, pin_memory : BOOLEAN]

\* the file names a call may be given: the names are interchangeable, so the
\* first named file of a run is the first path and the second one the second
Filenames ==
    {None} \cup {"/tmp/x.bin"}
        \cup (IF Lookup(Kernel, "/tmp/x.bin") # 0 THEN Paths ELSE {})

Run(op, K, input, dtype, cfg, filename) ==
    CASE op = "empty_like" ->
            empty_like(K, input, dtype, cfg.layout, cfg.device, cfg.pin_memory,
                       filename)
      [] op = "zeros_like" ->
            zeros_like(K, input, dtype, cfg.layout, cfg.device, cfg.pin_memory,
                       filename)
      [] op = "ones_like" ->
            ones_like(K, input, dtype, cfg.layout, cfg.device, cfg.pin_memory,
                      filename)

\* one creation call, its keyword arguments drawn from cfgs
Call(op, cfgs) ==
    /\ Idle /\ NewTensors # {} /\ CanOpen(MainProc)
    /\ \E input \in Inputs, dtype \in {None} \cup DTypes, cfg \in cfgs,
          filename \in Filenames :
        \E r \in {Run(op, Kernel, input, dtype, cfg, filename)} :
            Created(op, r, IF dtype = None THEN input.dtype ELSE dtype,
                    input.shape, cfg.device, cfg.layout, cfg.pin_memory,
                    filename)

EmptyLike == Call("empty_like", Configs)

ZerosLike == Call("zeros_like", Configs)

OnesLike == Call("ones_like", Configs)

\* the sources from_tensor may be given: a tensor of the state, or an ordinary
\* in-memory tensor (no file behind its storage) filled with one value
Sources ==
    {[dtype |-> tensors[t].dtype, shape |-> tensors[t].shape,
      filename |-> tensors[t].filename, bytes |-> Bytes(files, tensors[t]),
      id |-> t] : t \in LiveTensors}
    \cup {[dtype |-> dt, shape |-> sh, filename |-> None,
           bytes |-> Repeat(Encode(dt, v), numel(sh)), id |-> 0] :
              dt \in DTypes, sh \in Shapes, v \in Vals}

FromTensor ==
    /\ Idle /\ NewTensors # {} /\ CanOpen(MainProc)
    /\ \E src \in Sources, filename \in Filenames, copy_existing \in BOOLEAN :
        \E r \in {from_tensor(Kernel, src, filename, copy_existing)} :
            LET t == Min(NewTensors)
                ts == IF r.ok THEN [tensors EXCEPT ![t] = r.t] ELSE tensors
            IN  /\ tensors' = ts
                /\ files' = Reclaim(r.K, handlers, ts, chan)
                /\ fdtab' = r.K.fdtab
                /\ last' = [NoCall EXCEPT !.op = "from_tensor", !.ok = r.ok,
                                !.err = r.err, !.created = r.created,
                                !.out = IF r.ok THEN t ELSE 0,
                                !.dtype = src.dtype, !.shape = src.shape,
                                !.filename = filename,
                                !.copy_existing = copy_existing,
                                !.src = src.id, !.srcfile = src.filename]
                /\ UNCHANGED <<handlers, chan>>

\* tensor[i] = v on a tensor the caller holds
SetItem ==
    /\ Idle
    /\ \E t \in LiveTensors, v \in Vals :
        \E i \in 0..(numel(tensors[t].shape) - 1) :
            /\ files' = Store(Kernel, tensors[t].storage.ino,
                              i * itemsize(tensors[t].dtype),
                              Encode(tensors[t].dtype, v)).files
            /\ UNCHANGED <<fdtab, handlers, tensors, chan, last>>

\* the caller lets go of a tensor: its storage is unmapped
DelTensor ==
    /\ Idle
    /\ \E t \in LiveTensors :
        LET ts == [tensors EXCEPT ![t].state = "dead"]
        IN  /\ tensors' = ts
            /\ files' = Reclaim(Kernel, handlers, ts, chan)
            /\ UNCHANGED <<fdtab, handlers, chan, last>>

\* _FileHandler(size) in process p, kept by the caller
Construct ==
    /\ Idle /\ NewHandlers # {}
    /\ \E p \in Procs, size \in 0..MaxSize :
        /\ CanOpen(p)
        /\ \E r \in {FileHandler_init(Kernel, p, size, NoFd)} :
            LET h == Min(NewHandlers)
                hs == IF r.ok THEN [handlers EXCEPT ![h] = r.h] ELSE handlers
            IN  /\ handlers' = hs
                /\ files' = Reclaim(r.K, hs, tensors, chan)
                /\ fdtab' = r.K.fdtab
                /\ last' = [NoCall EXCEPT !.op = "construct", !.ok = r.ok,
                                !.err = IF r.ok THEN None ELSE "mmap",
                                !.created = r.created,
                                !.h = IF r.ok THEN h ELSE 0,
                                !.proc = p, !.size = size]
                /\ UNCHANGED <<tensors, chan>>

\* pickling a handler: _reduce_handler(handler); the pair travels in chan
Reduce ==
    /\ Idle
    /\ \E h \in LiveHandlers :
        \E r \in {reduce_handler(Kernel, handlers[h])} :
            LET m == [size |-> r.size, ino |-> r.ino, src |-> h]
            IN  /\ Cardinality(chan \cup {m}) <= MaxInFlight
                /\ chan' = IF r.ok THEN chan \cup {m} ELSE chan
                /\ last' = [NoCall EXCEPT !.op = "reduce", !.ok = r.ok,
                                !.err = IF r.ok THEN None ELSE "unpicklable",
                                !.h = h, !.size = r.size, !.ino = r.ino]
                /\ UNCHANGED <<files, fdtab, handlers, tensors>>

\* unpickling in process p: _rebuild_handler(size, dupfd)
Rebuild ==
    /\ Idle /\ NewHandlers # {}
    /\ \E p \in Procs, m \in chan :
        /\ FreeFds(Kernel, p) # {}
        /\ \E r \in {rebuild_handler(Kernel, p, m.size, m.ino)} :
            LET h == Min(NewHandlers)
                hs == IF r.ok
                      THEN [handlers EXCEPT ![h] = [r.h EXCEPT !.origin = m.src]]
                      ELSE handlers
            IN  /\ handlers' = hs
                /\ chan' = chan \ {m}
                /\ files' = Reclaim(r.K, hs, tensors, chan \ {m})
                /\ fdtab' = r.K.fdtab
                /\ last' = [NoCall EXCEPT !.op = "rebuild", !.ok = r.ok,
                                !.err = IF r.ok THEN None ELSE "mmap",
                                !.created = r.created,
                                !.h = IF r.ok THEN h ELSE 0,
                                !.src = m.src, !.proc = p, !.size = m.size,
                                !.ino = m.ino]
                /\ UNCHANGED tensors

\* handler.buffer[off] = val
WriteByte ==
    /\ Idle
    /\ \E h \in LiveHandlers, val \in ByteVals :
        \E off \in 0..(handlers[h].buffer.len - 1) :
            /\ files' = Store(Kernel, handlers[h].buffer.ino, off, <<val>>).files
            /\ UNCHANGED <<fdtab, handlers, tensors, chan, last>>

\* the caller lets go of a handler
DelHandler ==
    /\ Idle
    /\ \E h \in LiveHandlers :
        LET K1 == DropHandler(Kernel, handlers[h])
            hs == [handlers EXCEPT ![h].state = "dead"]
        IN  /\ handlers' = hs
            /\ fdtab' = K1.fdtab
            /\ files' = Reclaim(K1, hs, tensors, chan)
            /\ UNCHANGED <<tensors, chan, last>>

\* process p ends: the kernel closes its descriptors and unmaps its mappings
Exit ==
    /\ Idle
    /\ \E p \in Procs :
        LET hs == [h \in HIds |->
                      IF handlers[h].state = "live" /\ handlers[h].proc = p
                      THEN [handlers[h] EXCEPT !.state = "dead"] ELSE handlers[h]]
            K1 == [Kernel EXCEPT !.fdtab[p] = [f \in FdNums |-> 0]]
        IN  /\ \E f \in FdNums : fdtab[p][f] # 0
            /\ handlers' = hs
            /\ fdtab' = K1.fdtab
            /\ files' = Reclaim(K1, hs, tensors, chan)
            /\ UNCHANGED <<tensors, chan, last>>

\* the caller has seen the outcome of its call
Return ==
    /\ ~Idle
    /\ last' = NoCall
    /\ UNCHANGED <<files, fdtab, handlers, tensors, chan>>

\* the typed buffer factory and the holders of its tensors
NextFactory ==
    \/ EmptyLike \/ ZerosLike \/ OnesLike \/ FromTensor \/ SetItem \/ DelTensor
    \/ Return

SpecFactory == Init /\ [][NextFactory]_vars

\* the anonymous file region, in two processes
NextRegion ==
    \/ Construct \/ Reduce \/ Rebuild \/ WriteByte \/ DelHandler \/ Exit
    \/ Return

SpecRegion == Init /\ [][NextRegion]_vars

-----------------------------------------------------------------------------
(* The claims.                                                             *)

CreateOps == {"empty_like", "zeros_like", "ones_like"}

CpuOrUnset(device) == device = None \/ device_type(device) = "cpu"

\* C1: a creation call asked for a complex dtype fails and returns no tensor,
\* whatever the shape and whether or not a filename is given.
C1_ComplexRejected ==
    (last.op \in CreateOps /\ is_complex(last.dtype))
        => (~last.ok /\ last.out = 0)

Orphans ==
    {pf \in Procs \X FdNums :
        /\ fdtab[pf[1]][pf[2]] # 0
        /\ ~\E h \in LiveHandlers :
              handlers[h].proc = pf[1] /\ handlers[h].fd = pf[2]}

\* C4: a handler holds its descriptor and its mapping from construction to
\* release, and once it is released neither is left: no descriptor stays open
\* that no handler owns.
C4_ReleasedTogether ==
    /\ \A h \in LiveHandlers :
          fdtab[handlers[h].proc][handlers[h].fd] = handlers[h].buffer.ino
    /\ Orphans = {}

\* C5: _FileHandler(size) succeeds for every size >= 0 and maps exactly size
\* bytes; the size attribute stays what it was; a handler rebuilt from
\* (size, descriptor) maps size bytes too.
C5_ExactExtent ==
    /\ last.op \in {"construct", "rebuild"} =>
          /\ last.ok
          /\ handlers[last.h].size = last.size
          /\ handlers[last.h].buffer.len = last.size
    /\ \A h \in LiveHandlers : handlers[h].buffer.len = handlers[h].size

\* C6: a handler rebuilt from the pickled pair has the size of the handler that
\* was pickled and maps the same file, so the bytes read through the two
\* mappings are the same bytes after any writes of either holder; and a file
\* that a descriptor, a mapping or a pair in flight still holds is not reclaimed.
C6_SharedStorage ==
    /\ \A h \in HIds :
          (handlers[h].state # "none" /\ handlers[h].origin # 0) =>
              LET o == handlers[handlers[h].origin]
              IN  /\ handlers[h].size = o.size
                  /\ handlers[h].buffer.ino = o.buffer.ino
                  /\ handlers[h].buffer.len = o.buffer.len
                  /\ (handlers[h].state = "live" /\ o.state = "live")
                        => Load(files, handlers[h].buffer) = Load(files, o.buffer)
    /\ \A i \in Held(Kernel, handlers, tensors, chan) \ {0} : files[i].live
    /\ \A m \in chan : m.size = handlers[m.src].size

\* a worker's rebuilt handler and the parent's handler, both live, after a write
C6_Witness ==
    \E h \in LiveHandlers :
        /\ handlers[h].origin # 0
        /\ handlers[handlers[h].origin].state = "live"
        /\ handlers[handlers[h].origin].proc # handlers[h].proc
        /\ \E j \in 1..handlers[h].buffer.len :
              Load(files, handlers[h].buffer)[j] # 0

\* C7: the tensor from_tensor returns has the shape, the dtype and the values
\* of its source and a backing of its own, so that a write to either leaves the
\* other as it was.
C7_FreshCopy ==
    /\ (last.op = "from_tensor" /\ last.ok) =>
          /\ tensors[last.out].shape = last.shape
          /\ tensors[last.out].dtype = last.dtype
          /\ last.src # 0 =>
                Bytes(files, tensors[last.out]) = Bytes(files, tensors[last.src])
    /\ \A t \in LiveTensors :
          (tensors[t].dupOf # 0 /\ tensors[tensors[t].dupOf].state = "live") =>
              tensors[t].storage.ino # tensors[tensors[t].dupOf].storage.ino

\* C8: a creation call given a device that is not a CPU raises before it has
\* allocated anything and returns no tensor, with or without a filename; a
\* call given no device or a CPU device never raises for the device.
C8_DeviceRejected ==
    last.op \in CreateOps =>
        /\ ~CpuOrUnset(last.device)
              => /\ ~last.ok /\ last.err = "device"
                 /\ last.out = 0 /\ last.created = 0
        /\ CpuOrUnset(last.device) => last.err # "device"

\* zeros_like refused for its device although a filename was given
C8_Witness ==
    /\ last.op = "zeros_like" /\ ~CpuOrUnset(last.device)
    /\ last.filename # None /\ ~last.ok /\ last.err = "device"

\* C9: a creation call that fails for its device, a complex dtype, the layout,
\* pinning or a conflict returns nothing and has allocated nothing.
C9_AllOrNothing ==
    (/\ last.op \in CreateOps \cup {"from_tensor"}
     /\ ~last.ok
     /\ last.err \in {"device", "complex", "layout", "pin_memory", "conflict"})
        => (last.out = 0 /\ last.created = 0)

\* C10: for a floating-point, integer or boolean dtype and any shape, zeros_like
\* returns a tensor of numel(shape) zeros and ones_like one of numel(shape) ones.
C10_Filled ==
    (/\ last.op \in {"zeros_like", "ones_like"}
     /\ ~is_complex(last.dtype)
     /\ CpuOrUnset(last.device) /\ last.layout = None /\ ~last.pin_memory)
        => /\ last.ok
           /\ tensors[last.out].shape = last.shape
           /\ \A i \in 0..(numel(last.shape) - 1) :
                 Elem(files, tensors[last.out], i)
                    = (IF last.op = "zeros_like" THEN 0 ELSE 1)

\* the width in bytes of one element: bits/8 of a floating-point dtype, 1 of
\* bool, bits/8 of an integer dtype
byte_width(dt) ==
    CASE dt = "float32" -> 4
      [] dt = "bool" -> 1
      [] dt = "int16" -> 2

\* C11: every tensor returned for filename None lies on an anonymous region
\* whose mapping, and whose file, has exactly numel(shape) * byte_width(dtype)
\* bytes: 4 per float32 element, 1 per bool, 2 per int16; the call that
\* returned it asked for that shape and dtype.
C11_RegionSize ==
    /\ \A t \in TIds :
          (tensors[t].state = "live" /\ tensors[t].filename = None) =>
              /\ tensors[t].dtype \in {"float32", "bool", "int16"}
              /\ tensors[t].storage.len
                    = numel(tensors[t].shape) * byte_width(tensors[t].dtype)
              /\ Len(files[tensors[t].storage.ino].data) = tensors[t].storage.len
              /\ files[tensors[t].storage.ino].name = NoName
    /\ (last.op \in CreateOps /\ last.ok /\ last.filename = None) =>
          /\ tensors[last.out].dtype = last.dtype
          /\ tensors[last.out].shape = last.shape

\* empty_like returned an int16 tensor of two elements on a region of 4 bytes
C11_Witness ==
    /\ last.op = "empty_like" /\ last.ok /\ last.filename = None
    /\ last.dtype = "int16" /\ numel(last.shape) = 2
    /\ tensors[last.out].storage.len = 4

=============================================================================
